---- MODULE Spec2Model ----
(***************************************************************************)
(* Model of viewengine_demo.py: the command-line client of the ViewEngine  *)
(* REST API (main, ViewEngineDemo.run / run_demo, get_mcp_tools,           *)
(* submit_retrieve_request, poll_for_results, download_page_data).         *)
(*                                                                         *)
(* Python strings that the code inspects character by character (strip,    *)
(* lower, len, slicing) are sequences of one-character strings.  A JSON    *)
(* object is a record whose fields hold Absent when the key is missing.    *)
(***************************************************************************)
EXTENDS Integers, Sequences, FiniteSets, TLC

\* ------------------------------------------------------------------ bounds

\* largest max_attempts poll_for_results is called with directly (PollSpec)
MaxAttempts == 4
\* longest tools list the server answers with
MaxTools == 1
\* most two-digit numbers in a downloaded payload
MaxWide == 4

\* ------------------------------------------------------- program constants

DefaultMaxAttempts == 60
PollInterval == 2
TruncLimit == 500
IndentWidth == 2
TimeoutSeconds == 60

\* ------------------------------------------------------------ Python text

Whitespace == {" ", "\t", "\n"}

UpperAlpha == <<"A","B","C","D","E","F","G","H","I","J","K","L","M",
                "N","O","P","Q","R","S","T","U","V","W","X","Y","Z">>
LowerAlpha == <<"a","b","c","d","e","f","g","h","i","j","k","l","m",
                "n","o","p","q","r","s","t","u","v","w","x","y","z">>

\* str.lower() on one character
LowerChar(c) ==
    IF \E i \in 1..26 : UpperAlpha[i] = c
    THEN LowerAlpha[CHOOSE i \in 1..26 : UpperAlpha[i] = c]
    ELSE c

\* str.lower()
Lower(s) == IF s = <<>> THEN <<>> ELSE [i \in 1..Len(s) |-> LowerChar(s[i])]

RECURSIVE LStrip(_)
LStrip(s) ==
    IF s = <<>> THEN <<>>
    ELSE IF Head(s) \in Whitespace THEN LStrip(Tail(s)) ELSE s

RECURSIVE RStrip(_)
RStrip(s) ==
    IF s = <<>> THEN <<>>
    ELSE IF s[Len(s)] \in Whitespace THEN RStrip(SubSeq(s, 1, Len(s) - 1)) ELSE s

\* str.strip()
Strip(s) == RStrip(LStrip(s))

\* the literals the code compares with or assigns
StrCommunity == <<"c","o","m","m","u","n","i","t","y">>
StrPrivate == <<"p","r","i","v","a","t","e">>
StrY == <<"y">>
StrExampleUrl == <<"h","t","t","p","s",":","/","/","e","x","a","m","p","l","e",".","c","o","m">>

\* ------------------------------------------------------------ HTTP, JSON

Absent == "<absent>"

\* status codes the server answers with; TransportError stands for an
\* exception raised by the session before any response arrives
StatusCodes == {200, 300, 404, 503}

\* requests.Response.raise_for_status(): raises for 4xx and 5xx
RaisesForStatus(code) == 400 <= code /\ code < 600

\* requests.Response.ok: raise_for_status() does not raise
ResponseOk(code) == ~RaisesForStatus(code)


\* outcome of one HTTP call: a transport error, or a status code and a body
TransportError(body) == [err |-> TRUE, code |-> 0, body |-> body]
HttpResponse(code, body) == [err |-> FALSE, code |-> code, body |-> body]
Responses(bodies, none) ==
    {TransportError(none)} \cup {HttpResponse(c, b) : c \in StatusCodes, b \in bodies}

\* what response.json() can meet: text that is no JSON, null, {}, a non-empty
\* array, a non-empty object
JsonKinds == {"unparseable", "null", "emptydict", "list", "dict"}

\* Python truth value of a parsed JSON value (None, {} are false)
Truthy(v) == v.kind \in {"list", "dict"}

\* --- GET /v1/mcp/tools

ToolDescriptors == [name : {Absent, "retrieve"}, description : {Absent, "fetch a page"}]
ToolLists == UNION {[1..n -> ToolDescriptors] : n \in 0..MaxTools}

\* value of the key "tools": missing, or an array of descriptors
NoTools == [kind |-> "None", items |-> <<>>]
ToolsValue(items) == [kind |-> IF items = <<>> THEN "emptylist" ELSE "list", items |-> items]
ToolsBodies ==
    {[kind |-> k, tools |-> NoTools] : k \in JsonKinds}
    \cup {[kind |-> "dict", tools |-> ToolsValue(items)] : items \in ToolLists}
ToolsResponses == Responses(ToolsBodies, [kind |-> "unparseable", tools |-> NoTools])

\* --- POST /v1/mcp/retrieve

SubmitNone == [kind |-> "None", requestId |-> Absent, status |-> Absent, est |-> Absent]
SubmitBodies ==
    {[kind |-> k, requestId |-> Absent, status |-> Absent, est |-> Absent] :
        k \in JsonKinds}
    \cup [kind : {"dict"}, requestId : {Absent, "req-1"}, status : {Absent, "queued"},
          est : {Absent, "5"}]
SubmitResponses == Responses(SubmitBodies, SubmitNone)

\* --- GET /v1/mcp/retrieve/{requestId}

NoContent == [kind |-> "absent", pageDataUrl |-> Absent, artifacts |-> Absent,
              metrics |-> Absent]
\* "content": missing or an object; artifacts and metrics are missing,
\* an object ("dict") or a non-empty value that is no object ("str")
Contents ==
    {NoContent,
     [kind |-> "dict", pageDataUrl |-> Absent, artifacts |-> "dict", metrics |-> Absent],
     [kind |-> "dict", pageDataUrl |-> "page-1", artifacts |-> "dict", metrics |-> "dict"],
     [kind |-> "dict", pageDataUrl |-> "page-1", artifacts |-> "str", metrics |-> Absent],
     [kind |-> "dict", pageDataUrl |-> "page-1", artifacts |-> Absent, metrics |-> "str"]}

\* a result in progress carries no content yet; a finished one may
PendingStatuses == {Absent, "pending", "running"}
FinishedStatuses == {"complete", "failed", "canceled"}
ResultNone == [kind |-> "None", status |-> Absent, url |-> Absent, content |-> NoContent]
ResultBodies ==
    {[kind |-> k, status |-> Absent, url |-> Absent, content |-> NoContent] :
        k \in JsonKinds}
    \cup [kind : {"dict"}, status : PendingStatuses, url : {"u"}, content : {NoContent}]
    \cup [kind : {"dict"}, status : FinishedStatuses, url : {Absent}, content : {NoContent}]
    \cup [kind : {"dict"}, status : FinishedStatuses, url : {"u"}, content : Contents]
PollResponses == Responses(ResultBodies, ResultNone)

\* --- GET {pageDataUrl}: the payload is a JSON array of natural numbers

Payload(n, wide) == IF n = 0 THEN <<>> ELSE [i \in 1..n |-> IF i <= wide THEN 10 ELSE 7]
PayloadSizes == {0, 1, 99}
PageBodies ==
    {[kind |-> "unparseable", items |-> <<>>]}
    \cup {[kind |-> "list", items |-> Payload(n, w)] :
             n \in PayloadSizes, w \in 0..MaxWide}
PageResponses == Responses(PageBodies, [kind |-> "unparseable", items |-> <<>>])


\* ------------------------------------------------- the code's computations

\* main, lines 226-231: argv[1] as given, else the stripped answer to the prompt
ReadApiKey(argv, keyText) == IF Len(argv) > 0 THEN argv[1] ELSE Strip(keyText)

\* the test written as `if api_key is None`: an empty string passes
KeyMissingIsNone(key) == FALSE

\* main, line 233: `if not api_key`
KeyMissing(key) == key = <<>>

\* get_mcp_tools, lines 127-134: every exception gives None
ToolsRequestFails(resp) ==
    \/ resp.err
    \/ RaisesForStatus(resp.code)
    \/ resp.body.kind \in {"unparseable", "null", "list"}
\* get_mcp_tools without line 129: the status of the response is not looked at
GetMcpToolsAnyStatus(resp) ==
    IF resp.err \/ resp.body.kind \in {"unparseable", "null", "list"}
    THEN NoTools
    ELSE resp.body.tools

GetMcpTools(resp) == IF ToolsRequestFails(resp) THEN NoTools ELSE resp.body.tools

\* run_demo, lines 52-55: `if tools:` and the two subscripts per tool
ToolsFound(t) == t.kind = "list"
ToolsPrintRaises(t) ==
    /\ ToolsFound(t)
    /\ \E i \in 1..Len(t.items) :
          t.items[i].name = Absent \/ t.items[i].description = Absent

\* run_demo, lines 62-64
ResolveUrl(text) == IF Strip(text) = <<>> THEN StrExampleUrl ELSE Strip(text)
\* run_demo, lines 66-69
ResolveForceRefresh(text) == Lower(Strip(text)) = StrY
\* the mode compared as typed, without .strip().lower()
ResolveModeAsTyped(text) == IF text = StrCommunity THEN StrCommunity ELSE StrPrivate

\* run_demo, lines 71-74
ResolveMode(text) ==
    IF Lower(Strip(text)) = StrCommunity THEN StrCommunity ELSE StrPrivate

\* submit_retrieve_request, lines 141-146
RequestBody(u, f, m) ==
    [url |-> u, timeoutSeconds |-> TimeoutSeconds, forceRefresh |-> f, mode |-> m]

\* submit_retrieve_request, lines 154-156: the soft "API Error" branch
SubmitApiError(resp) == ~resp.err /\ ~ResponseOk(resp.code)
\* submit_retrieve_request, lines 148-162: an exception caught by line 160
SubmitRaises(resp) ==
    \/ resp.err
    \/ /\ ResponseOk(resp.code)
       /\ (RaisesForStatus(resp.code) \/ resp.body.kind = "unparseable")
\* submit_retrieve_request without lines 154-158: the body of any response that
\* parses is returned
SubmitRetrieveRequestAnyStatus(resp) ==
    IF resp.err \/ resp.body.kind \in {"unparseable", "null"}
    THEN SubmitNone
    ELSE resp.body

\* submit_retrieve_request: the value returned (JSON null parses to None)
SubmitRetrieveRequest(resp) ==
    IF SubmitApiError(resp) \/ SubmitRaises(resp) \/ resp.body.kind = "null"
    THEN SubmitNone
    ELSE resp.body

\* run_demo, lines 89-91: the three subscripts on the submit response
SubmitPrintRaises(r) ==
    \/ r.kind # "dict"
    \/ r.requestId = Absent \/ r.status = Absent \/ r.est = Absent

\* range(1, max_attempts): one iteration short
LoopHasNextShort(attempt_, max_) == attempt_ < max_

\* poll_for_results, line 168: range(1, max_attempts + 1) has a next value
LoopHasNext(attempt_, max_) == attempt_ <= max_

\* the status compared with a word the server never sends
IsCompleteMisspelt(status) == status = "completed"

\* poll_for_results, line 185
IsComplete(status) == status = "complete"

\* "canceled" left out of the list
IsTerminalFailureFailedOnly(status) == status = "failed"

\* poll_for_results, line 188
IsTerminalFailure(status) == status \in {"failed", "canceled"}

\* poll_for_results, lines 170-174 and 181: what raises inside the try block
PollRaises(resp) ==
    \/ resp.err
    \/ RaisesForStatus(resp.code)
    \/ resp.body.kind \in {"unparseable", "list"}
\* poll_for_results, line 176: `if not result`
PollEmpty(resp) == ~PollRaises(resp) /\ resp.body.kind \in {"null", "emptydict"}
\* poll_for_results, line 181: result.get("status", "unknown")
StatusOf(body) == IF body.status = Absent THEN "unknown" ELSE body.status
\* poll_for_results, lines 185-191: the iteration returns the result
PollReturns(resp) ==
    /\ ~PollRaises(resp)
    /\ ~PollEmpty(resp)
    /\ (IsComplete(StatusOf(resp.body)) \/ IsTerminalFailure(StatusOf(resp.body)))
\* poll_for_results, lines 177, 183, 190, 195: the last line the iteration prints
PollPrints(resp) ==
    IF PollRaises(resp) THEN "[n/max] Error"
    ELSE IF PollEmpty(resp) THEN "[n/max] Failed to deserialize response"
    ELSE IF ~IsComplete(StatusOf(resp.body)) /\ IsTerminalFailure(StatusOf(resp.body))
    THEN "Error:"
    ELSE "[n/max] Status"

\* run_demo, lines 102-116: a subscript or .keys() that raises
ReportRaises(r) ==
    \/ r.status = Absent
    \/ r.url = Absent
    \/ /\ r.content.kind = "dict"
       /\ \/ r.content.pageDataUrl = Absent
          \/ r.content.artifacts = "str"
          \/ r.content.metrics = "str"
\* run_demo, line 106: `if result.get("content")`
HasContent(r) == r.content.kind = "dict"

\* run_demo, lines 118-119
WantsDownload(text) == Lower(Strip(text)) = StrY

\* line 99's return left out and the report skipped: the summary still follows
AfterPollNoReturn(r, downloadText) ==
    IF ~Truthy(r) THEN "summary"
    ELSE IF ReportRaises(r) THEN "caught"
    ELSE IF HasContent(r) /\ WantsDownload(downloadText) THEN "download"
    ELSE "summary"

\* run_demo, lines 97-120: where the run goes once poll_for_results has returned
AfterPoll(r, downloadText) ==
    IF ~Truthy(r) THEN "finish"
    ELSE IF ReportRaises(r) THEN "caught"
    ELSE IF HasContent(r) /\ WantsDownload(downloadText) THEN "download"
    ELSE "summary"

\* decimal digits of a natural number
RECURSIVE Digits(_)
Digits(n) ==
    IF n < 10
    THEN <<(<<"0","1","2","3","4","5","6","7","8","9">>)[n + 1]>>
    ELSE Digits(n \div 10) \o Digits(n % 10)

Spaces(n) == [i \in 1..n |-> " "]

\* json.dumps(items, indent=2) for an array of numbers
RECURSIVE DumpItems(_)
DumpItems(items) ==
    IF items = <<>> THEN <<>>
    ELSE <<"\n">> \o Spaces(IndentWidth) \o Digits(Head(items))
         \o (IF Len(items) > 1 THEN <<",">> ELSE <<>>)
         \o DumpItems(Tail(items))
JsonDumps(items) ==
    IF items = <<>> THEN <<"[", "]">>
    ELSE <<"[">> \o DumpItems(items) \o <<"\n", "]">>

\* the comparison written >= instead of >
ShownFromLimit(pretty) ==
    IF Len(pretty) >= TruncLimit
    THEN SubSeq(pretty, 1, TruncLimit) \o <<".", ".", ".">>
    ELSE pretty

\* download_page_data, lines 214-217
Shown(pretty) ==
    IF Len(pretty) > TruncLimit
    THEN SubSeq(pretty, 1, TruncLimit) \o <<".", ".", ".">>
    ELSE pretty

\* download_page_data, lines 206-208: what raises
DownloadRaises(resp) ==
    resp.err \/ RaisesForStatus(resp.code) \/ resp.body.kind = "unparseable"


\* ------------------------------------------------------ what the user types

KeyTexts == {<<>>, <<" ">>, <<"k">>}
\* sys.argv[1:]: no argument, or one
Argvs == {<<>>} \cup {<<k>> : k \in KeyTexts}
UrlTexts == {<<>>, <<" ">>, <<"u">>}
YesNoTexts == {<<>>, <<"y">>, <<"Y", " ">>, <<"n">>}
ModeTexts ==
    {<<>>, StrCommunity, StrPrivate,
     <<"C","o","m","m","u","n","i","t","y">>,
     <<" ">> \o StrCommunity \o <<" ">>,
     <<"c","o","m","m","u","n","i","t","y","x">>,
     <<"c","o","m","m">>}

\* -------------------------------------------------------------------- state

VARIABLES
    pc,                 \* where the script is
    api_key,            \* main's api_key
    session,            \* the client's session: whether created, its X-API-Key
    exitStatus,         \* status of sys.exit, 0 until then
    requested,          \* endpoints a request has been issued to
    printed,            \* messages written to the console
    response,           \* response received by the function that has just returned
                        \* (code 0: none)
    tools,              \* run_demo's tools
    typed,              \* the answers to the three prompts as typed, kept until
                        \* the request built from them has been answered
    url, force_refresh, mode,   \* run_demo's locals
    requestBody,        \* body of the POST that was sent
    retrieve_response,  \* run_demo's retrieve_response
    request_id, max_attempts, attempt,  \* poll_for_results' frame
    pollTrace,          \* requests and waits of the poll_for_results call
    slept,              \* seconds spent in time.sleep by that call
    pollLine,           \* the line that call printed last
    firstTerminal,      \* first poll response with a terminal status, and its index
    result,             \* value returned by poll_for_results
    page_data,          \* download_page_data's page_data
    pageOutput          \* the page content printed by download_page_data

vars == <<pc, api_key, session, exitStatus, requested, printed, response, tools,
          typed, url, force_refresh, mode, requestBody,
          retrieve_response, request_id, max_attempts, attempt, pollTrace, slept,
          pollLine, firstTerminal, result, page_data, pageOutput>>

NoSession == [created |-> FALSE, key |-> <<>>]
NoResponse == [err |-> FALSE, code |-> 0]
NoTyped == [url |-> <<>>, force |-> <<>>, mode |-> <<>>]
NoRequestBody == [url |-> <<>>, timeoutSeconds |-> 0, forceRefresh |-> FALSE, mode |-> <<>>]
NoTerminal == [at |-> 0, body |-> ResultNone]
NoPage == [kind |-> "None", items |-> <<>>]
NoOutput == [shown |-> FALSE, text |-> <<>>]

mainVars == <<api_key, session, exitStatus>>
promptVars == <<typed, url, force_refresh, mode>>
pollVars == <<request_id, max_attempts, attempt, pollTrace, slept, pollLine,
              firstTerminal>>
pageVars == <<page_data, pageOutput>>

Init ==
    /\ pc = "main"
    /\ api_key = <<>>
    /\ session = NoSession
    /\ exitStatus = 0
    /\ requested = {}
    /\ printed = {}
    /\ response = NoResponse
    /\ tools = NoTools
    /\ typed = NoTyped
    /\ url = <<>>
    /\ force_refresh = FALSE
    /\ mode = <<>>
    /\ requestBody = NoRequestBody
    /\ retrieve_response = SubmitNone
    /\ request_id = Absent
    /\ max_attempts = 0
    /\ attempt = 0
    /\ pollTrace = <<>>
    /\ slept = 0
    /\ pollLine = ""
    /\ firstTerminal = NoTerminal
    /\ result = ResultNone
    /\ page_data = NoPage
    /\ pageOutput = NoOutput

\* ------------------------------------------------------------------ actions

\* main, lines 224-242, and the banner of run, lines 30-34
Main(argv, keyText) ==
    /\ pc = "main"
    /\ api_key' = ReadApiKey(argv, keyText)
    /\ IF KeyMissing(api_key')
       THEN /\ printed' = printed \cup {"Error: API key is required"}
            /\ exitStatus' = 1
            /\ session' = session
            /\ pc' = "exited"
       ELSE /\ printed' = printed \cup {"banner"}
            /\ exitStatus' = exitStatus
            /\ session' = [created |-> TRUE, key |-> api_key']
            /\ pc' = "tools"
    /\ UNCHANGED <<requested, response, tools, promptVars, requestBody,
                   retrieve_response, pollVars, result, pageVars>>

\* get_mcp_tools, lines 125-134, called at line 51
GetTools(resp) ==
    /\ pc = "tools"
    /\ requested' = requested \cup {"GET /v1/mcp/tools"}
    /\ response' = resp
    /\ tools' = GetMcpTools(resp)
    /\ printed' = printed \cup {"Step 1"} \cup
                  (IF ToolsRequestFails(resp) THEN {"Error getting tools"} ELSE {})
    /\ pc' = "tools_done"
    /\ UNCHANGED <<mainVars, promptVars, requestBody, retrieve_response, pollVars,
                   result, pageVars>>

\* run_demo, lines 52-81: the tools listing and the three prompts
Prompt(urlText, forceText, modeText) ==
    /\ pc = "tools_done"
    /\ response' = NoResponse
    /\ IF ToolsPrintRaises(tools)
       THEN /\ printed' = printed \cup {"Found tools"}
            /\ UNCHANGED promptVars
            /\ pc' = "caught"
       ELSE /\ printed' = printed \cup {"Step 2"} \cup
                   (IF ToolsFound(tools) THEN {"Found tools"} ELSE {"No tools found"})
            /\ typed' = [url |-> urlText, force |-> forceText, mode |-> modeText]
            /\ url' = ResolveUrl(urlText)
            /\ force_refresh' = ResolveForceRefresh(forceText)
            /\ mode' = ResolveMode(modeText)
            /\ pc' = "submit"
    /\ UNCHANGED <<mainVars, requested, tools, requestBody, retrieve_response,
                   pollVars, result, pageVars>>

\* submit_retrieve_request, lines 136-162, called at line 83
Submit(resp) ==
    /\ pc = "submit"
    /\ requestBody' = RequestBody(url, force_refresh, mode)
    /\ requested' = requested \cup {"POST /v1/mcp/retrieve"}
    /\ response' = resp
    /\ retrieve_response' = SubmitRetrieveRequest(resp)
    /\ printed' = printed \cup
          (IF SubmitApiError(resp) THEN {"API Error"} ELSE {}) \cup
          (IF SubmitRaises(resp) THEN {"Error submitting retrieval request"} ELSE {})
    /\ pc' = "submitted"
    /\ UNCHANGED <<mainVars, tools, promptVars, pollVars, result, pageVars>>


\* run_demo, lines 84-94: the outcome of the submit stage
AfterSubmit ==
    /\ pc = "submitted"
    /\ response' = NoResponse
    /\ typed' = NoTyped
    /\ IF ~Truthy(retrieve_response)
       THEN /\ printed' = printed \cup {"Failed to submit retrieval request"}
            /\ UNCHANGED pollVars
            /\ pc' = "finish"
       ELSE IF SubmitPrintRaises(retrieve_response)
       THEN /\ printed' = printed \cup {"Request submitted successfully"}
            /\ UNCHANGED pollVars
            /\ pc' = "caught"
       ELSE /\ printed' = printed \cup {"Request submitted successfully", "Step 3"}
            /\ request_id' = retrieve_response.requestId
            /\ max_attempts' = DefaultMaxAttempts
            /\ attempt' = 1
            /\ UNCHANGED <<pollTrace, slept, pollLine, firstTerminal>>
            /\ pc' = "poll"
    /\ UNCHANGED <<mainVars, requested, tools, url, force_refresh, mode, requestBody,
                   retrieve_response, result, pageVars>>

\* the status a poll response reports: that of a response that arrived, passed
\* raise_for_status and parsed to a non-empty object
ReportedStatus(resp) ==
    IF resp.err \/ RaisesForStatus(resp.code) \/ resp.body.kind # "dict"
    THEN Absent
    ELSE resp.body.status

NumRequests(trace) == Cardinality({i \in 1..Len(trace) : trace[i] = "request"})
NumWaits(trace) == Cardinality({i \in 1..Len(trace) : trace[i] = "wait"})

\* poll_for_results, lines 168-196: one iteration of the loop
PollAttempt(resp) ==
    /\ pc = "poll"
    /\ LoopHasNext(attempt, max_attempts)
    /\ requested' = requested \cup {"GET /v1/mcp/retrieve/{id}"}
    /\ pollLine' = PollPrints(resp)
    /\ firstTerminal' =
          IF firstTerminal.at = 0
             /\ ReportedStatus(resp) \in {"complete", "failed", "canceled"}
          THEN [at |-> NumRequests(pollTrace) + 1, body |-> resp.body]
          ELSE firstTerminal
    /\ IF PollReturns(resp)
       THEN /\ pollTrace' = Append(pollTrace, "request")
            /\ slept' = slept
            /\ result' = resp.body
            /\ attempt' = attempt
            /\ pc' = "poll_returned"
       ELSE /\ pollTrace' = pollTrace \o <<"request", "wait">>
            /\ slept' = slept + PollInterval
            /\ result' = result
            /\ attempt' = attempt + 1
            /\ pc' = "poll"
    /\ UNCHANGED <<mainVars, printed, response, tools, promptVars, requestBody,
                   retrieve_response, request_id, max_attempts, pageVars>>

\* poll_for_results, lines 198-199: the range is exhausted
PollTimeout ==
    /\ pc = "poll"
    /\ ~LoopHasNext(attempt, max_attempts)
    /\ pollLine' = "Timeout: Maximum polling attempts reached"
    /\ result' = ResultNone
    /\ pc' = "poll_returned"
    /\ UNCHANGED <<mainVars, requested, printed, response, tools, promptVars,
                   requestBody, retrieve_response, request_id, max_attempts, attempt,
                   pollTrace, slept, firstTerminal, pageVars>>

\* run_demo, lines 97-118: the outcome of the poll stage; poll_for_results'
\* frame is gone
ReportResult(downloadText) ==
    /\ pc = "poll_returned"
    /\ request_id' = Absent
    /\ max_attempts' = 0
    /\ attempt' = 0
    /\ pollTrace' = <<>>
    /\ slept' = 0
    /\ pollLine' = ""
    /\ firstTerminal' = NoTerminal
    /\ printed' = printed \cup
          (IF ~Truthy(result) THEN {"Failed to get results"} ELSE {"Retrieval completed"})
    /\ pc' = AfterPoll(result, downloadText)
    /\ UNCHANGED <<mainVars, requested, response, tools, promptVars, requestBody,
                   retrieve_response, result, pageVars>>

\* download_page_data, lines 201-221, called at line 120
Download(resp) ==
    /\ pc = "download"
    /\ requested' = requested \cup {"GET pageDataUrl"}
    /\ IF DownloadRaises(resp)
       THEN /\ printed' = printed \cup {"Error downloading page data"}
            /\ UNCHANGED pageVars
       ELSE /\ printed' = printed \cup {"Page Content (first 500 chars)"}
            /\ page_data' = resp.body
            /\ pageOutput' = [shown |-> TRUE, text |-> Shown(JsonDumps(resp.body.items))]
    /\ pc' = "summary"
    /\ UNCHANGED <<mainVars, response, tools, promptVars, requestBody,
                   retrieve_response, pollVars, result>>

\* run_demo, lines 122-123
Summary ==
    /\ pc = "summary"
    /\ printed' = printed \cup {"Demo completed successfully"}
    /\ pc' = "finish"
    /\ UNCHANGED <<mainVars, requested, response, tools, promptVars, requestBody,
                   retrieve_response, pollVars, result, pageVars>>

\* run, lines 38-42: an exception of run_demo is printed with its trace
Caught ==
    /\ pc = "caught"
    /\ printed' = printed \cup {"Error", "Stack trace"}
    /\ pc' = "finish"
    /\ UNCHANGED <<mainVars, requested, response, tools, promptVars, requestBody,
                   retrieve_response, pollVars, result, pageVars>>

\* run, lines 44-45, and the return of main
Finish ==
    /\ pc = "finish"
    /\ printed' = printed \cup {"Press Enter to exit"}
    /\ pc' = "done"
    /\ UNCHANGED <<mainVars, requested, response, tools, promptVars, requestBody,
                   retrieve_response, pollVars, result, pageVars>>

Next ==
    \/ \E argv \in Argvs, text \in KeyTexts : Main(argv, text)
    \/ \E resp \in ToolsResponses : GetTools(resp)
    \/ \E u \in UrlTexts, f \in YesNoTexts, m \in ModeTexts : Prompt(u, f, m)
    \/ \E resp \in SubmitResponses : Submit(resp)
    \/ AfterSubmit
    \/ \E resp \in PollResponses : PollAttempt(resp)
    \/ PollTimeout
    \/ \E d \in YesNoTexts : ReportResult(d)
    \/ \E resp \in PageResponses : Download(resp)
    \/ Summary
    \/ Caught
    \/ Finish

Spec == Init /\ [][Next]_vars

\* poll_for_results called on its own, on a fresh client, with any max_attempts
PollInit ==
    /\ pc = "poll"
    /\ api_key = <<"k">>
    /\ session = [created |-> TRUE, key |-> <<"k">>]
    /\ exitStatus = 0
    /\ requested = {}
    /\ printed = {}
    /\ response = NoResponse
    /\ tools = NoTools
    /\ typed = NoTyped
    /\ url = <<>>
    /\ force_refresh = FALSE
    /\ mode = <<>>
    /\ requestBody = NoRequestBody
    /\ retrieve_response = SubmitNone
    /\ request_id = "req-1"
    /\ max_attempts \in 0..MaxAttempts
    /\ attempt = 1
    /\ pollTrace = <<>>
    /\ slept = 0
    /\ pollLine = ""
    /\ firstTerminal = NoTerminal
    /\ result = ResultNone
    /\ page_data = NoPage
    /\ pageOutput = NoOutput

PollNext ==
    \/ \E resp \in PollResponses : PollAttempt(resp)
    \/ PollTimeout

PollSpec == PollInit /\ [][PollNext]_vars


\* ------------------------------------------------------------------- properties

ToolsEndpoint == "GET /v1/mcp/tools"
SubmitEndpoint == "POST /v1/mcp/retrieve"
PollEndpoint == "GET /v1/mcp/retrieve/{id}"
PageEndpoint == "GET pageDataUrl"

Is2xx(code) == 200 <= code /\ code < 300

\* C1: poll_for_results returns at the first response that reports status
\* "complete": the value returned is that response's payload, the number of
\* requests issued is the index of that response, and the last thing the call
\* did is that request (no wait follows it, and one wait precedes each earlier
\* request's successor).
C1_StopsAtFirstComplete ==
    (firstTerminal.at > 0 /\ firstTerminal.body.status = "complete") =>
        /\ pc = "poll_returned"
        /\ result = firstTerminal.body
        /\ NumRequests(pollTrace) = firstTerminal.at
        /\ pollTrace[Len(pollTrace)] = "request"
        /\ NumWaits(pollTrace) = firstTerminal.at - 1
        /\ slept = PollInterval * (firstTerminal.at - 1)

\* a "complete" response arrived after earlier non-terminal ones, with attempts left
C1_Witness ==
    /\ pc = "poll_returned"
    /\ firstTerminal.at > 1
    /\ firstTerminal.at < max_attempts
    /\ firstTerminal.body.status = "complete"
    /\ result.status = "complete"

\* C2: poll_for_results returns at the first response that reports status
\* "failed" or "canceled": it returns that response, and issues no request and
\* no wait after it, even when attempts remain.
C2_StopsAtFirstFailure ==
    (firstTerminal.at > 0 /\ firstTerminal.body.status \in {"failed", "canceled"}) =>
        /\ pc = "poll_returned"
        /\ result = firstTerminal.body
        /\ NumRequests(pollTrace) = firstTerminal.at
        /\ pollTrace[Len(pollTrace)] = "request"
        /\ attempt = firstTerminal.at

\* a "canceled" response arrived on an attempt that was not the last
C2_Witness ==
    /\ pc = "poll_returned"
    /\ firstTerminal.at > 0
    /\ firstTerminal.at < max_attempts
    /\ firstTerminal.body.status = "canceled"
    /\ result.status = "canceled"

\* C3: as long as no response has reported a terminal status, every attempt
\* used is one request followed by one wait of PollInterval seconds, never more
\* than max_attempts requests are issued, and once the call has returned it has
\* issued exactly max_attempts requests and returns None after the timeout line.
C3_ExactlyMaxAttempts ==
    (pc \in {"poll", "poll_returned"} /\ firstTerminal.at = 0) =>
        /\ NumRequests(pollTrace) <= max_attempts
        /\ NumRequests(pollTrace) = attempt - 1
        /\ Len(pollTrace) = 2 * (attempt - 1)
        /\ \A i \in 1..Len(pollTrace) :
              pollTrace[i] = IF i % 2 = 1 THEN "request" ELSE "wait"
        /\ slept = PollInterval * NumWaits(pollTrace)
        /\ pc = "poll_returned" =>
              /\ result = ResultNone
              /\ NumRequests(pollTrace) = max_attempts
              /\ pollLine = "Timeout: Maximum polling attempts reached"

\* a call with max_attempts = 3 ran out of attempts
C3_Witness ==
    /\ pc = "poll_returned"
    /\ firstTerminal.at = 0
    /\ max_attempts = 3
    /\ NumRequests(pollTrace) = 3
    /\ result = ResultNone

\* C4 as stated: every response that is not 2xx, and every transport error,
\* makes submit_retrieve_request return None, and it returns the parsed
\* response only on a 2xx response.
C4_Non2xxIsFailure ==
    pc = "submitted" =>
        /\ (response.err \/ ~Is2xx(response.code)) => retrieve_response = SubmitNone
        /\ retrieve_response # SubmitNone => (~response.err /\ Is2xx(response.code))

\* C4, amended: every response with a status code from 400 to 599, and every
\* transport error, makes submit_retrieve_request return None without an
\* exception reaching the caller; it returns the parsed response only on a
\* response whose status code is outside 400..599.
C4_ErrorStatusIsFailure ==
    pc = "submitted" =>
        /\ (response.err \/ (400 <= response.code /\ response.code < 600)) =>
              /\ retrieve_response = SubmitNone
              /\ printed \cap {"API Error", "Error submitting retrieval request"} # {}
        /\ retrieve_response # SubmitNone =>
              /\ ~response.err
              /\ ~(400 <= response.code /\ response.code < 600)
              /\ retrieve_response = response.body
        /\ "Stack trace" \notin printed

\* a 404 with a well-formed body was answered with None
C4_Witness ==
    /\ pc = "submitted"
    /\ response.code = 404
    /\ response.body.kind = "dict"
    /\ response.body.requestId # Absent
    /\ retrieve_response = SubmitNone

\* C5: the stages run in the order tools, submit, poll, download; a poll
\* request is issued only after the submit request returned a response; and
\* when polling ended with None, no download request is issued and the run
\* does not report that the demo completed successfully.
PollEndedWithNone ==
    /\ PollEndpoint \in requested
    /\ pc \in {"poll_returned", "finish", "done"}
    /\ result = ResultNone
C5_FailedStageAborts ==
    /\ SubmitEndpoint \in requested => ToolsEndpoint \in requested
    /\ PollEndpoint \in requested =>
          /\ SubmitEndpoint \in requested
          /\ Truthy(retrieve_response)
    /\ PageEndpoint \in requested => PollEndpoint \in requested
    /\ PollEndedWithNone =>
          /\ PageEndpoint \notin requested
          /\ "Demo completed successfully" \notin printed
          /\ "Retrieval completed" \notin printed

\* the run ended after a poll that timed out
C5_Witness ==
    /\ pc = "done"
    /\ PollEndedWithNone
    /\ "Failed to get results" \in printed

\* C6 as stated: every transport error and every response that is not 2xx on
\* GET /v1/mcp/tools gives "no tools".
C6_Non2xxIsNoTools ==
    (pc = "tools_done" /\ (response.err \/ ~Is2xx(response.code))) => tools = NoTools

\* C6, amended: every transport error and every response with a status code
\* from 400 to 599 on GET /v1/mcp/tools gives None without an exception
\* reaching run_demo, and a run whose tools request failed goes on to the
\* prompts and to the submit request: it does not end before that request.
C6_ToolsFailureIsSoft ==
    /\ (pc = "tools_done" /\ (response.err \/ (400 <= response.code /\ response.code < 600)))
          => /\ tools = NoTools
             /\ "Error getting tools" \in printed
    /\ "Error getting tools" \in printed =>
          /\ tools = NoTools
          /\ "Stack trace" \in printed => SubmitEndpoint \in requested
          /\ \/ pc \in {"tools_done", "submit"}
             \/ /\ SubmitEndpoint \in requested
                /\ "No tools found" \in printed

\* the submit request was issued after a failed tools request
C6_Witness ==
    /\ pc = "submitted"
    /\ "Error getting tools" \in printed
    /\ "No tools found" \in printed
    /\ SubmitEndpoint \in requested

\* C7 as stated: the mode sent is "community" only when the text typed is
\* exactly "community", and "private" for any other text; an empty URL gives
\* "https://example.com".
C7_ModeExactlyAsTyped ==
    pc = "submitted" =>
        /\ requestBody.mode = (IF typed.mode = StrCommunity THEN StrCommunity ELSE StrPrivate)
        /\ typed.url = <<>> => requestBody.url = StrExampleUrl

\* C7, amended: the mode sent is "community" when the text typed, with
\* surrounding whitespace removed and in lower case, is "community", and
\* "private" for any other text; an empty URL gives "https://example.com".
C7_ModeAfterStripLower ==
    pc = "submitted" =>
        /\ requestBody.mode =
              (IF Lower(Strip(typed.mode)) = StrCommunity THEN StrCommunity ELSE StrPrivate)
        /\ typed.url = <<>> => requestBody.url = StrExampleUrl
        /\ requestBody.timeoutSeconds = TimeoutSeconds

\* " community " was typed with an empty URL, and "community" was sent
C7_Witness ==
    /\ pc = "submitted"
    /\ typed.mode = <<" ">> \o StrCommunity \o <<" ">>
    /\ typed.url = <<>>
    /\ requestBody.mode = StrCommunity
    /\ requestBody.url = StrExampleUrl

\* C8: what download_page_data prints is the pretty-printed payload itself when
\* that is at most TruncLimit characters long (exactly TruncLimit included),
\* and otherwise its first TruncLimit characters followed by "...".
C8_TruncatesAfterLimit ==
    pageOutput.shown =>
        LET pretty == JsonDumps(page_data.items)
            text == pageOutput.text
        IN  IF Len(pretty) <= TruncLimit
            THEN text = pretty
            ELSE /\ Len(text) = TruncLimit + 3
                 /\ \A i \in 1..TruncLimit : text[i] = pretty[i]
                 /\ \A i \in (TruncLimit + 1)..(TruncLimit + 3) : text[i] = "."

\* a payload whose pretty-printed form is exactly TruncLimit characters long
C8_Witness ==
    /\ pageOutput.shown
    /\ Len(JsonDumps(page_data.items)) = TruncLimit
    /\ Len(pageOutput.text) = TruncLimit

\* C9: with an empty API key main exits with status 1, having created no
\* client and issued no request; with a non-empty key the client is created
\* with that key and the run starts.
C9_MissingKeyExits ==
    pc # "main" =>
        /\ api_key = <<>> =>
              /\ pc = "exited"
              /\ exitStatus = 1
              /\ ~session.created
              /\ requested = {}
              /\ "banner" \notin printed
        /\ api_key # <<>> =>
              /\ pc # "exited"
              /\ exitStatus = 0
              /\ session = [created |-> TRUE, key |-> api_key]
              /\ "banner" \in printed

\* main has exited for want of a key
C9_Witness ==
    /\ pc = "exited"
    /\ api_key = <<>>
    /\ exitStatus = 1
    /\ "Error: API key is required" \in printed

\* C10: a download request, "Retrieval completed" and "Demo completed
\* successfully" occur only in a run whose poll ended on status "complete".
C10_SuccessOnlyOnComplete ==
    (\/ PageEndpoint \in requested
     \/ "Retrieval completed" \in printed
     \/ "Demo completed successfully" \in printed) => result.status = "complete"

====
